---------------------------- MODULE Spec2Model ----------------------------
(***************************************************************************)
(* Model of backend/main.py: the key loader, the schema inference, the     *)
(* prompt builder and the generate_dashboard request handler.              *)
(*                                                                         *)
(* Text is modelled as a sequence of one-character strings, so that        *)
(* strip(), lower() and the substring tests of the handler are computed.   *)
(* The model's reply is modelled as a sequence of JSON lexemes.            *)
(***************************************************************************)
EXTENDS Integers, Sequences, FiniteSets, TLC

\* ------------------------------------------------------------------ bounds
MaxRows == 2        \* rows of an uploaded table
NCols == 2          \* columns of an uploaded table
MaxSample == 3      \* sample_n values tried on infer_schema: 0..MaxSample
MaxMsgFrags == 2    \* fragments an upstream error message is made of
MaxContentLen == 6  \* lexemes of a model reply

\* ------------------------------------------------------- program constants
SampleN == 200      \* infer_schema(df, sample_n=200)
MaxSamples == 5     \* .tolist()[:5]

\* ---------------------------------------------------------------- helpers
Max(a, b) == IF a >= b THEN a ELSE b
Min(a, b) == IF a <= b THEN a ELSE b

\* All sequences over S of length 0..n.
SeqsUpTo(S, n) == UNION {[1..k -> S] : k \in 0..n}

\* ------------------------------------------------------------------- text
Whitespace == {" ", "\n", "\t"}

LowerOf ==
  [c \in {"A", "I", "N", "Q", "U", "Y", "E", "S", "T", "R"} |->
     CASE c = "A" -> "a" [] c = "I" -> "i" [] c = "N" -> "n" [] c = "Q" -> "q"
       [] c = "U" -> "u" [] c = "Y" -> "y" [] c = "E" -> "e" [] c = "S" -> "s"
       [] c = "T" -> "t" [] c = "R" -> "r"]

\* str.lower()
Lower(s) == [i \in 1..Len(s) |-> IF s[i] \in DOMAIN LowerOf THEN LowerOf[s[i]] ELSE s[i]]

RECURSIVE LStrip(_)
LStrip(s) == IF s # <<>> /\ Head(s) \in Whitespace THEN LStrip(Tail(s)) ELSE s

RECURSIVE RStrip(_)
RStrip(s) ==
  IF s # <<>> /\ s[Len(s)] \in Whitespace THEN RStrip(SubSeq(s, 1, Len(s) - 1)) ELSE s

\* str.strip()
Strip(s) == RStrip(LStrip(s))

\* `sub in s` on Python strings
Contains(s, sub) ==
  \E i \in 1..(Len(s) - Len(sub) + 1) : SubSeq(s, i, i + Len(sub) - 1) = sub

\* ------------------------------------------------------------ environment
\* An environment variable: unset, or set to a text.
Unset == [set |-> FALSE, val |-> <<>>]
SetTo(s) == [set |-> TRUE, val |-> s]

\* Python's None for an optional text.
None == [none |-> TRUE, val |-> <<>>]
Some(s) == [none |-> FALSE, val |-> s]

\* `if x:` on an optional text
Truthy(o) == ~o.none /\ o.val # <<>>

\* os.getenv(name): None when unset
Getenv(e) == IF e.set THEN Some(e.val) ELSE None

\* os.getenv(name, default)
GetenvDefault(e, d) == IF e.set THEN e.val ELSE d

\* Values of OPENAI_API_KEY the process may be started with.
KeyEnvValues ==
  { Unset, SetTo(<<>>), SetTo(<<" ", " ">>), SetTo(<<"s", "k">>),
    SetTo(<<" ", "s", "k", "\n">>) }

\* States of ../openai_key.txt: missing, unreadable, or readable with a text.
KeyFileStates ==
  { [state |-> "missing", text |-> <<>>],
    [state |-> "unreadable", text |-> <<>>],
    [state |-> "ok", text |-> <<>>],
    [state |-> "ok", text |-> <<" ", "\n">>],
    [state |-> "ok", text |-> <<"f", "k">>],
    [state |-> "ok", text |-> <<" ", "f", "k", "\n">>] }

\* Values of MOCK_DASHBOARD the process may be started with.
MockEnvValues ==
  { Unset, SetTo(<<"1">>), SetTo(<<"t", "r", "u", "e">>), SetTo(<<"Y", "E", "S">>),
    SetTo(<<"T", "r", "u", "e">>), SetTo(<<"0">>), SetTo(<<"o", "n">>),
    SetTo(<<"y", "e", "s", " ">>) }

\* ------------------------------------------------------------- key loader
\* load_openai_key(): the environment value when it is truthy (stripped),
\* else the stripped text of the fallback file when that is readable and
\* non-empty after stripping, else None. `except Exception: pass` turns a
\* missing or unreadable file into None.
load_openai_key(env, f) ==
  LET key == Getenv(env) IN
  IF Truthy(key) THEN Some(Strip(key.val))
  ELSE IF f.state = "ok" /\ Strip(f.text) # <<>> THEN Some(Strip(f.text))
  ELSE None

\* get_openai_client() without its key check: a client is built from
\* whatever load_openai_key returned.
get_openai_client_unchecked(env, f) ==
  [raised |-> FALSE, status |-> 0, key |-> load_openai_key(env, f)]

\* get_openai_client(): HTTPException(500) when `not key`, else a client
\* holding the key.
get_openai_client(env, f) ==
  LET key == load_openai_key(env, f) IN
  IF ~Truthy(key) THEN [raised |-> TRUE, status |-> 500, key |-> None]
  ELSE [raised |-> FALSE, status |-> 0, key |-> key]

\* -------------------------------------------------------------- mock flag
TruthyTokens == { <<"1">>, <<"t", "r", "u", "e">>, <<"y", "e", "s">> }

\* The mock test without .lower().
MockEnabledCaseSensitive(env) ==
  GetenvDefault(env, <<"f", "a", "l", "s", "e">>) \in TruthyTokens

\* os.getenv("MOCK_DASHBOARD", "false").lower() in ("1", "true", "yes")
MockEnabled(env) ==
  Lower(GetenvDefault(env, <<"f", "a", "l", "s", "e">>)) \in TruthyTokens

\* The canned dashboard of the mock branch; its description embeds the intent.
mock_dashboard(intent) ==
  [ title |-> "Mock Dashboard",
    description |-> <<"Mock generated for intent: ", intent>>,
    filters |-> <<>>,
    layout |-> [columns |-> 2],
    views |-> << [id |-> "v1", title |-> "Mock Time Series", mark |-> "line"],
                 [id |-> "v2", title |-> "Mock Category Breakdown", mark |-> "arc"] >> ]

\* ------------------------------------------------------- schema inference
\* A table (DataFrame) is a sequence of rows, a row a sequence of NCols
\* cells; "NA" is a missing cell.
Cells == {"NA", "1", "2"}
Columns == 1..NCols
Rows == [Columns -> Cells]
Tables == SeqsUpTo(Rows, MaxRows)

\* df.head(rows)
DfHead(df, rows) == SubSeq(df, 1, rows)

\* df[col] as the sequence of its cells
Column(df, col) == [i \in 1..Len(df) |-> df[i][col]]

\* ser.dropna()
RECURSIVE DropNa(_)
DropNa(ser) ==
  IF ser = <<>> THEN <<>>
  ELSE IF Head(ser) = "NA" THEN DropNa(Tail(ser))
  ELSE <<Head(ser)>> \o DropNa(Tail(ser))

\* ser.unique(): the distinct values in first-encountered order
RECURSIVE Unique(_)
Unique(ser) ==
  IF ser = <<>> THEN <<>>
  ELSE LET init == Unique(SubSeq(ser, 1, Len(ser) - 1))
           last == ser[Len(ser)]
       IN IF \E i \in 1..Len(init) : init[i] = last THEN init ELSE Append(init, last)

\* ser.nunique(dropna=True)
NUnique(ser) == Cardinality({ser[i] : i \in 1..Len(ser)} \ {"NA"})

\* Number of missing cells of a series.
NMissing(ser) == Cardinality({i \in 1..Len(ser) : ser[i] = "NA"})

\* round(x, 3) of the fraction m/n (n > 0), in thousandths; no fraction
\* m/n with n < 16 lies halfway between two thousandths.
RoundPermille(m, n) == (2 * 1000 * m + n) \div (2 * n)

\* NaN, the mean of an empty series, in thousandths.
NaN == 0 - 1

\* round(float(ser.isna().mean()), 3) if total > 0 else 0.0, in thousandths
MissingPct(ser, total) ==
  IF total > 0
    THEN IF Len(ser) = 0 THEN NaN ELSE RoundPermille(NMissing(ser), Len(ser))
    ELSE 0

\* str(ser.dtype) of a numeric CSV column: the sample keeps the dtype of the
\* whole column.
DType(df, col) ==
  IF Len(df) = 0 THEN "object"
  ELSE IF NMissing(Column(df, col)) > 0 THEN "float64"
  ELSE "int64"

\* (nunique / max(total, 1) < 0.05) or (nunique <= 50)
LikelyCategorical(nunique, total) ==
  (100 * nunique < 5 * Max(total, 1)) \/ (nunique <= 50)

\* infer_schema(df, sample_n): one profile per column, and the sample rows
\* that to_csv serializes.
infer_schema(df, sample_n) ==
  LET rows == Min(Len(df), sample_n)
      df_sample == DfHead(df, rows)
      total == Len(df)
      profile(col) ==
        LET ser == Column(df_sample, col)
            uniq == Unique(DropNa(ser))
        IN [ name |-> col,
             dtype |-> DType(df, col),
             nunique |-> NUnique(ser),
             missing_pct |-> MissingPct(ser, total),
             samples |-> SubSeq(uniq, 1, Min(Len(uniq), MaxSamples)),
             likely_categorical |-> LikelyCategorical(NUnique(ser), total) ]
  IN [ schema |-> [col \in Columns |-> profile(col)],
       sample_csv |-> [header |-> [col \in Columns |-> col], rows |-> df_sample] ]

\* ---------------------------------------------------------- prompt builder
\* build_prompt(schema_json, sample_csv, user_intent): a system message and
\* a user message that embeds the schema, the sample and the intent.
build_prompt(schema_json, sample_csv, user_intent) ==
  << [role |-> "system", content |-> "BI assistant: ONLY valid JSON"],
     [role |-> "user",
      content |-> [schema |-> schema_json, sample |-> sample_csv,
                   intent |-> user_intent, max_views |-> 6]] >>

\* ------------------------------------------------- upstream error mapping
\* Texts str(e) of an upstream exception is made of.
MsgFragments ==
  { <<"4", "2", "9">>, <<"4", "0", "1">>, <<"q", "u", "o", "t", "a">>, <<"Q", "u", "o", "t", "a">>,
    <<"U", "n", "a", "u", "t", "h", "o", "r", "i", "z", "e", "d">>,
    <<"I", "n", "v", "a", "l", "i", "d">>, <<"t", "i", "m", "e", "o", "u", "t">> }

RECURSIVE Concat(_)
Concat(parts) == IF parts = <<>> THEN <<>> ELSE Head(parts) \o Concat(Tail(parts))

Messages == {Concat(p) : p \in SeqsUpTo(MsgFragments, MaxMsgFrags)}

IsQuotaError(se) ==
  \/ Contains(se, <<"i", "n", "s", "u", "f", "f", "i", "c", "i", "e", "n", "t", "_", "q", "u", "o", "t", "a">>)
  \/ Contains(se, <<"q", "u", "o", "t", "a">>)
  \/ Contains(se, <<"4", "2", "9">>)

IsAuthError(se) ==
  \/ Contains(se, <<"4", "0", "1">>)
  \/ Contains(Lower(se), <<"u", "n", "a", "u", "t", "h", "o", "r", "i", "z", "e", "d">>)
  \/ Contains(Lower(se), <<"i", "n", "v", "a", "l", "i", "d", "_", "a", "p", "i", "_", "k", "e", "y">>)
  \/ Contains(Lower(se), <<"i", "n", "v", "a", "l", "i", "d">>)

\* The mapping with the authentication test made first.
StatusForErrorAuthFirst(se) ==
  IF IsAuthError(se) THEN 401
  ELSE IF IsQuotaError(se) THEN 429
  ELSE 502

\* The status of the HTTPException raised for an upstream exception whose
\* text is se: the quota test, then the authentication test, then 502.
StatusForError(se) ==
  IF IsQuotaError(se) THEN 429
  ELSE IF IsAuthError(se) THEN 401
  ELSE 502

\* ------------------------------------------------------------ model reply
\* A reply text is a sequence of lexemes: the braces, "K" a member key
\* "dashboard": and "J" a member key "other": (each with the comma that
\* separates it from a preceding member), "1" a scalar JSON literal and "w" a
\* word of prose.
Lexemes == {"{", "}", "K", "J", "1", "w"}
Texts == SeqsUpTo(Lexemes, MaxContentLen)

\* message.content: a text, or None.
NoContent == [none |-> TRUE, text |-> <<>>]
Content(t) == [none |-> FALSE, text |-> t]

\* A parsed JSON value: a scalar, or an object with its members as
\* <<key, value>> pairs in insertion order, keys unique.
Scalar == [t |-> "scalar", m |-> <<>>]
Object(members) == [t |-> "obj", m |-> members]

HasKey(v, k) == v.t = "obj" /\ \E i \in 1..Len(v.m) : v.m[i][1] = k
Lookup(v, k) == LET i == CHOOSE j \in 1..Len(v.m) : v.m[j][1] = k IN v.m[i][2]

\* dict[k] = v: a repeated key keeps its place and takes the last value.
Put(members, k, v) ==
  IF \E i \in 1..Len(members) : members[i][1] = k
    THEN [i \in 1..Len(members) |-> IF members[i][1] = k THEN <<k, v>> ELSE members[i]]
    ELSE Append(members, <<k, v>>)

ParseFail == [ok |-> FALSE, val |-> Scalar, next |-> 0]

RECURSIVE ParseValue(_, _), ParseMembers(_, _, _)
\* A JSON value starting at lexeme i of s.
ParseValue(s, i) ==
  IF i > Len(s) THEN ParseFail
  ELSE IF s[i] = "1" THEN [ok |-> TRUE, val |-> Scalar, next |-> i + 1]
  ELSE IF s[i] = "{" THEN ParseMembers(s, i + 1, <<>>)
  ELSE ParseFail

\* The members of an object and its closing brace, from lexeme i of s.
ParseMembers(s, i, acc) ==
  IF i > Len(s) THEN ParseFail
  ELSE IF s[i] = "}" THEN [ok |-> TRUE, val |-> Object(acc), next |-> i + 1]
  ELSE IF s[i] \in {"K", "J"}
    THEN LET v == ParseValue(s, i + 1)
         IN IF v.ok THEN ParseMembers(s, v.next, Put(acc, s[i], v.val)) ELSE ParseFail
  ELSE ParseFail

\* json.loads(text): the whole text is one JSON value, or it raises.
json_loads(text) ==
  LET r == ParseValue(text, 1)
  IN IF r.ok /\ r.next = Len(text) + 1
       THEN [ok |-> TRUE, val |-> r.val]
       ELSE [ok |-> FALSE, val |-> Scalar]

Positions(text, c) == {i \in 1..Len(text) : text[i] = c}
MinOf(S) == CHOOSE x \in S : \A y \in S : x <= y
MaxOf(S) == CHOOSE x \in S : \A y \in S : x >= y

NoMatch == [found |-> FALSE, group |-> <<>>]

\* A search that stops at the first closing brace after the first opening
\* one (a non-greedy pattern).
re_search_nongreedy(text) ==
  LET opens == Positions(text, "{") IN
  IF opens = {} \/ {j \in Positions(text, "}") : j > MinOf(opens)} = {} THEN NoMatch
  ELSE [found |-> TRUE,
        group |-> SubSeq(text, MinOf(opens),
                         MinOf({j \in Positions(text, "}") : j > MinOf(opens)}))]

\* re.search(r"(\{(?:.|\n)*\})", text): the leftmost match starts at the first
\* "{" and, the star being greedy, ends at the last "}" of the text.
re_search(text) ==
  LET opens == Positions(text, "{")
      closes == Positions(text, "}")
  IN IF opens = {} \/ closes = {} \/ MaxOf(closes) < MinOf(opens) THEN NoMatch
     ELSE [found |-> TRUE, group |-> SubSeq(text, MinOf(opens), MaxOf(closes))]

NoJson == [ok |-> FALSE, val |-> Scalar]

\* Lines 221-241: how the reply becomes dashboard_json. "value": the name is
\* bound; "http": HTTPException(502); "unhandled": an exception that no
\* handler catches (re.search on None raises TypeError inside the except
\* block).
parse_reply(content) ==
  IF content.none THEN [outcome |-> "unhandled", json |-> NoJson]
  ELSE LET direct == json_loads(content.text) IN
    IF direct.ok THEN [outcome |-> "value", json |-> direct]
    ELSE LET m == re_search(content.text) IN
      IF m.found
        THEN LET inner == json_loads(m.group) IN
             IF inner.ok THEN [outcome |-> "value", json |-> inner]
             ELSE [outcome |-> "http", json |-> NoJson]
        ELSE [outcome |-> "http", json |-> NoJson]

\* ------------------------------------------------------------- responses
NoBody == [none |-> TRUE]
NoResponse == [status |-> 0, kind |-> "none", via |-> "none", body |-> NoBody]

\* return {"dashboard": d}
Ok(via, d) == [status |-> 200, kind |-> "ok", via |-> via, body |-> [dashboard |-> d]]

\* raise HTTPException(status_code=code)
HttpError(code) == [status |-> code, kind |-> "http_exception", via |-> "none", body |-> NoBody]

\* An exception that leaves the handler: the framework answers 500.
Unhandled == [status |-> 500, kind |-> "unhandled", via |-> "none", body |-> NoBody]

\* A lookup that defaults a missing key: dashboard_json.get("dashboard").
return_dashboard_defaulting(json) ==
  IF HasKey(json.val, "K") THEN Ok("live", Lookup(json.val, "K")) ELSE Ok("live", Scalar)

\* Line 243: return {"dashboard": dashboard_json["dashboard"]}; the subscript
\* raises KeyError on an object without the key and TypeError on a value
\* that is no object.
return_dashboard(json) ==
  IF HasKey(json.val, "K") THEN Ok("live", Lookup(json.val, "K")) ELSE Unhandled

\* ------------------------------------------------------------------ state
VARIABLES
  mockEnv,        \* MOCK_DASHBOARD of the process environment
  keyEnv,         \* OPENAI_API_KEY of the process environment
  keyFile,        \* ../openai_key.txt
  pc,             \* where the handler is
  file,           \* the uploaded file
  intent,         \* the intent form field
  df,             \* the parsed DataFrame
  parseAttempts,  \* pd.read_csv calls made
  sample_n,       \* infer_schema's sample_n argument
  schema_json,    \* infer_schema's column profiles
  sample_csv,     \* infer_schema's serialized sample
  messages,       \* build_prompt's result
  client,         \* the OpenAI client (the key it holds)
  keyLookups,     \* load_openai_key calls made
  apiCalls,       \* chat.completions.create calls made
  se,             \* str(e) of the upstream exception, None before one is caught
  content,        \* resp.choices[0].message.content
  dashboard_json, \* the parsed reply
  response        \* what the client receives

envVars == <<mockEnv, keyEnv, keyFile>>
reqVars == <<file, intent, df, parseAttempts, sample_n, schema_json, sample_csv, messages>>
liveVars == <<client, keyLookups, apiCalls, se, content, dashboard_json>>
vars == <<envVars, reqVars, liveVars, pc, response>>

\* ---------------------------------------------------------------- uploads
\* pd.read_csv is library code: an upload is described by what the two
\* parse attempts make of it. "clean": the bytes parse; "bad_bytes": the
\* bytes do not parse, their lossy decoding does; "malformed": neither does
\* (an empty file, for one).
NoTable == [loaded |-> FALSE, rows |-> <<>>]
Loaded(t) == [loaded |-> TRUE, rows |-> t]

UploadTables ==
  { <<>>,
    << [c \in Columns |-> "1"] >>,
    << [c \in Columns |-> IF c = 1 THEN "1" ELSE "2"],
       [c \in Columns |-> IF c = 1 THEN "NA" ELSE "2"] >> }

Uploads ==
  {[kind |-> "clean", table |-> t] : t \in UploadTables}
    \cup {[kind |-> "bad_bytes", table |-> << [c \in Columns |-> "2"] >>],
          [kind |-> "malformed", table |-> <<>>]}

Intents == {"sales by month", "top customers"}
NoUpload == [kind |-> "none", table |-> <<>>]

\* pd.read_csv(io.BytesIO(data))
read_csv_bytes(f) == IF f.kind = "clean" THEN Loaded(f.table) ELSE NoTable

\* pd.read_csv(io.StringIO(data.decode(errors='ignore')))
read_csv_text(f) == IF f.kind \in {"clean", "bad_bytes"} THEN Loaded(f.table) ELSE NoTable

\* Replies the upstream model gives in a whole request.
Replies ==
  { NoContent, Content(<<"{", "K", "1", "}">>), Content(<<"{", "K", "{", "J", "1", "}", "}">>),
    Content(<<"{", "J", "1", "}">>), Content(<<"1">>), Content(<<"w", "w">>),
    Content(<<"w", "{", "K", "1", "}", "w">>), Content(<<"{", "w", "}">>) }

\* ------------------------------------------------------------------- Init
Idle ==
  /\ pc = "read"
  /\ file = NoUpload
  /\ intent = ""
  /\ df = NoTable
  /\ parseAttempts = 0
  /\ schema_json = <<>>
  /\ sample_csv = <<>>
  /\ messages = <<>>
  /\ client = None
  /\ keyLookups = 0
  /\ apiCalls = 0
  /\ se = None
  /\ content = NoContent
  /\ dashboard_json = NoJson
  /\ response = NoResponse

\* The service has started with some environment; a request is about to be
\* handled.
Init ==
  /\ mockEnv \in MockEnvValues
  /\ keyEnv \in KeyEnvValues
  /\ keyFile \in KeyFileStates
  /\ sample_n = SampleN
  /\ Idle

\* ---------------------------------------------------------------- actions
\* Lines 121-123: read the upload and parse its bytes.
Ingest ==
  /\ pc = "read"
  /\ \E f \in Uploads, i \in Intents :
       /\ file' = f
       /\ intent' = i
       /\ parseAttempts' = parseAttempts + 1
       /\ df' = read_csv_bytes(f)
       /\ pc' = IF read_csv_bytes(f).loaded THEN "profile" ELSE "reparse"
  /\ UNCHANGED <<envVars, liveVars, sample_n, schema_json, sample_csv, messages, response>>

\* Lines 124-126: the except branch parses the lossy decoding; an exception
\* raised here leaves the handler.
Reparse ==
  /\ pc = "reparse"
  /\ parseAttempts' = parseAttempts + 1
  /\ df' = read_csv_text(file)
  /\ IF read_csv_text(file).loaded
       THEN pc' = "profile" /\ UNCHANGED response
       ELSE pc' = "done" /\ response' = Unhandled
  /\ UNCHANGED <<envVars, liveVars, file, intent, sample_n, schema_json, sample_csv, messages>>

\* Line 129: infer_schema.
Profile ==
  /\ pc = "profile"
  /\ schema_json' = infer_schema(df.rows, sample_n).schema
  /\ sample_csv' = infer_schema(df.rows, sample_n).sample_csv
  /\ pc' = "compose"
  /\ UNCHANGED <<envVars, liveVars, file, intent, df, parseAttempts, sample_n, messages, response>>

\* Line 130: build_prompt.
Compose ==
  /\ pc = "compose"
  /\ messages' = build_prompt(schema_json, sample_csv, intent)
  /\ pc' = "branch"
  /\ UNCHANGED <<envVars, liveVars, file, intent, df, parseAttempts, sample_n, schema_json,
                 sample_csv, response>>

\* Lines 134-178: the mock branch.
MockReturn ==
  /\ pc = "branch"
  /\ MockEnabled(mockEnv)
  /\ response' = Ok("mock", mock_dashboard(intent))
  /\ pc' = "done"
  /\ UNCHANGED <<envVars, reqVars, liveVars>>

\* Lines 181-185: get_openai_client; its HTTPException is re-raised.
GetClient ==
  /\ pc = "branch"
  /\ ~MockEnabled(mockEnv)
  /\ keyLookups' = keyLookups + 1
  /\ LET c == get_openai_client(keyEnv, keyFile) IN
       IF c.raised
         THEN /\ response' = HttpError(c.status)
              /\ pc' = "done"
              /\ UNCHANGED client
         ELSE /\ client' = c.key
              /\ pc' = "call"
              /\ UNCHANGED response
  /\ UNCHANGED <<envVars, reqVars, apiCalls, se, content, dashboard_json>>

\* Lines 188-193 and 221: the completion call returns a reply.
UpstreamReturns ==
  /\ pc = "call"
  /\ apiCalls' = apiCalls + 1
  /\ content' \in Replies
  /\ pc' = "parse"
  /\ UNCHANGED <<envVars, reqVars, client, keyLookups, se, dashboard_json, response>>

\* Lines 188-194, 197: the completion call raises.
UpstreamRaises ==
  /\ pc = "call"
  /\ apiCalls' = apiCalls + 1
  /\ \E m \in Messages : se' = Some(m)
  /\ pc' = "error"
  /\ UNCHANGED <<envVars, reqVars, client, keyLookups, content, dashboard_json, response>>

\* An except branch that calls the API again instead of raising.
MapErrorRetrying ==
  /\ pc = "error"
  /\ apiCalls < 3
  /\ pc' = "call"
  /\ UNCHANGED <<envVars, reqVars, liveVars, response>>

\* Lines 202-219: the except branch raises the mapped HTTPException.
MapError ==
  /\ pc = "error"
  /\ response' = HttpError(StatusForError(se.val))
  /\ pc' = "done"
  /\ UNCHANGED <<envVars, reqVars, liveVars>>

\* Lines 224-243: parse the reply and return its dashboard.
ParseReply ==
  /\ pc = "parse"
  /\ LET r == parse_reply(content) IN
       /\ dashboard_json' = r.json
       /\ response' = CASE r.outcome = "value" -> return_dashboard(r.json)
                        [] r.outcome = "http" -> HttpError(502)
                        [] OTHER -> Unhandled
  /\ pc' = "done"
  /\ UNCHANGED <<envVars, reqVars, client, keyLookups, apiCalls, se, content>>

Next ==
  \/ Ingest
  \/ Reparse
  \/ Profile
  \/ Compose
  \/ MockReturn
  \/ GetClient
  \/ UpstreamReturns
  \/ UpstreamRaises
  \/ MapError
  \/ ParseReply

\* One request, in any environment the service may run in.
Spec == Init /\ [][Next]_vars

\* ------------------------------------------- infer_schema as a function
\* A direct call infer_schema(df, sample_n) on any table, with any sample
\* size.
InitSchema ==
  /\ mockEnv = Unset
  /\ keyEnv = Unset
  /\ keyFile = [state |-> "missing", text |-> <<>>]
  /\ sample_n \in 0..MaxSample
  /\ \E t \in Tables :
       /\ df = Loaded(t)
       /\ file = [kind |-> "clean", table |-> t]
  /\ intent = "top customers"
  /\ parseAttempts = 1
  /\ pc = "profile"
  /\ schema_json = <<>>
  /\ sample_csv = <<>>
  /\ messages = <<>>
  /\ client = None
  /\ keyLookups = 0
  /\ apiCalls = 0
  /\ se = None
  /\ content = NoContent
  /\ dashboard_json = NoJson
  /\ response = NoResponse

NextSchema == Profile

SpecSchema == InitSchema /\ [][NextSchema]_vars

\* --------------------------------------------- reply parsing as a function
\* The handler at line 221 with any reply text up to MaxContentLen lexemes.
InitParse ==
  /\ mockEnv = Unset
  /\ keyEnv = SetTo(<<"s", "k">>)
  /\ keyFile = [state |-> "missing", text |-> <<>>]
  /\ sample_n = SampleN
  /\ file = [kind |-> "clean", table |-> <<>>]
  /\ df = Loaded(<<>>)
  /\ intent = "top customers"
  /\ parseAttempts = 1
  /\ schema_json = infer_schema(<<>>, SampleN).schema
  /\ sample_csv = infer_schema(<<>>, SampleN).sample_csv
  /\ messages = build_prompt(schema_json, sample_csv, intent)
  /\ client = Some(<<"s", "k">>)
  /\ keyLookups = 1
  /\ apiCalls = 1
  /\ se = None
  /\ content \in {NoContent} \cup {Content(t) : t \in Texts}
  /\ dashboard_json = NoJson
  /\ response = NoResponse
  /\ pc = "parse"

NextParse == ParseReply

SpecParse == InitParse /\ [][NextParse]_vars

\* ================================================================= claims

\* ---- C1 ----------------------------------------------------------------
C1_MockOn ==
  mockEnv.set /\ Lower(mockEnv.val) \in { <<"1">>, <<"t", "r", "u", "e">>, <<"y", "e", "s">> }

\* C1, as stated: with MOCK_DASHBOARD truthy, a request whose upload was
\* ingested looks up no credential, calls no upstream API and returns one
\* fixed envelope, the same for every intent.
C1_FixedEnvelope ==
  (C1_MockOn /\ pc = "done" /\ df.loaded) =>
    /\ keyLookups = 0
    /\ apiCalls = 0
    /\ \A i \in Intents : response = Ok("mock", mock_dashboard(i))

\* C1, amended: with MOCK_DASHBOARD truthy ("1", "true", "yes" in any letter
\* case) no credential is looked up and no upstream call is made; a request
\* whose upload was ingested returns the example dashboard, fixed in every
\* field but its description, which embeds the request's intent; a request
\* whose upload was not ingested returns no dashboard.
C1_MockBypassesUpstream ==
  C1_MockOn =>
    /\ keyLookups = 0
    /\ apiCalls = 0
    /\ client = None
    /\ (pc = "done" /\ df.loaded) =>
         /\ response.status = 200
         /\ response.via = "mock"
         /\ response.body.dashboard.title = "Mock Dashboard"
         /\ response.body.dashboard.description = <<"Mock generated for intent: ", intent>>
         /\ response.body.dashboard.filters = <<>>
         /\ response.body.dashboard.layout = [columns |-> 2]
         /\ Len(response.body.dashboard.views) = 2
         /\ response.body.dashboard.views[1].id = "v1"
         /\ response.body.dashboard.views[2].id = "v2"
    /\ (pc = "done" /\ ~df.loaded) => response.status # 200

C1_Witness ==
  /\ pc = "done"
  /\ mockEnv = SetTo(<<"Y", "E", "S">>)
  /\ file.kind = "bad_bytes"
  /\ intent = "top customers"
  /\ response.via = "mock"

\* ---- C2 ----------------------------------------------------------------
\* C2: with mock mode off, when load_openai_key finds no credential, no
\* upstream call is made at any point of the request, and a request whose
\* upload was ingested ends with the 500 HTTPException.
C2_MissingKeyIs500 ==
  (~C1_MockOn /\ ~Truthy(load_openai_key(keyEnv, keyFile))) =>
    /\ apiCalls = 0
    /\ pc \notin {"call", "parse", "error"}
    /\ (pc = "done" /\ df.loaded) =>
         /\ response.status = 500
         /\ response.kind = "http_exception"
         /\ keyLookups = 1

C2_Witness ==
  /\ pc = "done"
  /\ df.loaded
  /\ mockEnv = SetTo(<<"0">>)
  /\ keyEnv = Unset
  /\ keyFile.state = "missing"
  /\ keyLookups = 1
  /\ response.status = 500

\* ---- C3 ----------------------------------------------------------------
\* C3: once the upstream call has raised, the request ends with the
\* HTTPException 429 if the text holds a quota marker, else 401 if it holds
\* an authentication marker, else 502, and with nothing else.
C3_UpstreamErrorStatus ==
  ~se.none =>
    /\ pc \in {"error", "done"}
    /\ response.status # 200
    /\ pc = "done" =>
         /\ response.kind = "http_exception"
         /\ response.status \in {429, 401, 502}
         /\ IsQuotaError(se.val) => response.status = 429
         /\ (~IsQuotaError(se.val) /\ IsAuthError(se.val)) => response.status = 401
         /\ (~IsQuotaError(se.val) /\ ~IsAuthError(se.val)) => response.status = 502

C3_Witness ==
  /\ pc = "done"
  /\ ~se.none
  /\ Contains(se.val, <<"4", "0", "1">>)
  /\ Contains(se.val, <<"q", "u", "o", "t", "a">>)
  /\ response.status = 429

\* ---- C4 ----------------------------------------------------------------
\* A span of the text that is a JSON object.
IsObjectText(t) == json_loads(t).ok /\ json_loads(t).val.t = "obj"

HoldsObject(t) == \E i \in 1..Len(t) : \E j \in i..Len(t) : IsObjectText(SubSeq(t, i, j))

\* C4, as stated: a reply that holds no JSON object at all (None included)
\* ends with the 502 HTTPException.
C4_NoObjectIs502 ==
  (pc = "done" /\ (content.none \/ ~HoldsObject(content.text))) =>
    /\ response.status = 502
    /\ response.kind = "http_exception"

\* ---- C5 ----------------------------------------------------------------
\* C5, as stated: at most two parse attempts are made, and an upload that
\* neither attempt parses ends the request with a client error, no later
\* step having run.
C5_IngestFailureIs4xx ==
  /\ parseAttempts <= 2
  /\ (pc = "done" /\ ~df.loaded) =>
       /\ response.status \in 400..499
       /\ schema_json = <<>>
       /\ messages = <<>>
       /\ keyLookups = 0
       /\ apiCalls = 0

\* ---- C6 ----------------------------------------------------------------
\* The missing fraction taken over the whole column, in thousandths.
MissingPctFull(t, col) ==
  IF Len(t) > 0 THEN RoundPermille(NMissing(Column(t, col)), Len(t)) ELSE 0

\* C6, as stated: missing_pct is the fraction of missing cells over all rows
\* of the table, whatever the sample size (here: any sample size of at least
\* one row).
C6_MissingOverFullTable ==
  (pc = "compose" /\ sample_n >= 1) =>
    \A col \in Columns :
      /\ schema_json[col].missing_pct = MissingPctFull(df.rows, col)
      /\ \A s \in 1..MaxSample :
           infer_schema(df.rows, s).schema[col].missing_pct = schema_json[col].missing_pct

\* ---- C7 ----------------------------------------------------------------
\* Prose: text that holds no JSON object and, unless empty, starts and ends
\* with a word.
IsProse(t) == ~HoldsObject(t) /\ (t = <<>> \/ (t[1] = "w" /\ t[Len(t)] = "w"))

Before(t, i) == SubSeq(t, 1, i - 1)
After(t, j) == SubSeq(t, j + 1, Len(t))

\* The reply was parsed to the object o and answered accordingly.
C7_AnsweredWith(o) ==
  /\ dashboard_json = [ok |-> TRUE, val |-> o]
  /\ HasKey(o, "K") => response = Ok("live", Lookup(o, "K"))

\* C7, as stated: prose before and/or after a single JSON object O is
\* extracted to exactly O.
C7_ProseAroundObject ==
  (pc = "done" /\ ~content.none /\ ~json_loads(content.text).ok) =>
    \A i \in 1..Len(content.text) : \A j \in i..Len(content.text) :
      ( /\ IsObjectText(SubSeq(content.text, i, j))
        /\ IsProse(Before(content.text, i))
        /\ IsProse(After(content.text, j))
        /\ Before(content.text, i) \o After(content.text, j) # <<>> )
      => C7_AnsweredWith(json_loads(SubSeq(content.text, i, j)).val)

\* C7, amended: a reply that is not itself valid JSON and has text before
\* and/or after a single JSON object O is extracted to exactly O when the
\* text before O holds no "{" and the text after O holds no "}"; then a
\* `dashboard` key of O is returned.
C7_BraceFreeProseAroundObject ==
  (pc = "done" /\ ~content.none /\ ~json_loads(content.text).ok) =>
    \A i \in 1..Len(content.text) : \A j \in i..Len(content.text) :
      ( /\ IsObjectText(SubSeq(content.text, i, j))
        /\ Positions(Before(content.text, i), "{") = {}
        /\ Positions(After(content.text, j), "}") = {}
        /\ Before(content.text, i) \o After(content.text, j) # <<>> )
      => C7_AnsweredWith(json_loads(SubSeq(content.text, i, j)).val)

C7_Witness ==
  /\ pc = "done"
  /\ content = Content(<<"w", "{", "K", "1", "}", "w">>)
  /\ response = Ok("live", Scalar)

\* ---- C8 ----------------------------------------------------------------
\* C8: the completion API is called at most once in a request, the
\* credential is looked up at most once, only the parse of the upload is
\* repeated (once), and the call is made only with the upload ingested, the
\* schema inferred, the prompt built and a credential held.
C8_AtMostOneUpstreamCall ==
  /\ apiCalls <= 1
  /\ keyLookups <= 1
  /\ parseAttempts <= 2
  /\ (apiCalls = 1 \/ pc = "call") =>
       /\ df.loaded
       /\ schema_json # <<>>
       /\ messages = build_prompt(schema_json, sample_csv, intent)
       /\ keyLookups = 1
       /\ Truthy(client)

C8_Witness ==
  /\ pc = "done"
  /\ parseAttempts = 2
  /\ apiCalls = 1
  /\ ~se.none
  /\ response.status = 502

\* ---- C9 ----------------------------------------------------------------
\* C9: a reply parsed to an object without a `dashboard` key ends in a 5xx
\* and in no success envelope; a success envelope carries the value of the
\* parsed object's `dashboard` key.
C9_MissingDashboardKeyIs5xx ==
  pc = "done" =>
    /\ (dashboard_json.ok /\ dashboard_json.val.t = "obj" /\ ~HasKey(dashboard_json.val, "K")) =>
         /\ response.status \in 500..599
         /\ response.kind # "ok"
    /\ response.status = 200 =>
         /\ dashboard_json.ok
         /\ HasKey(dashboard_json.val, "K")
         /\ response.body.dashboard = Lookup(dashboard_json.val, "K")
    /\ content = Content(<<"{", "K", "{", "J", "1", "}", "}">>) =>
         response = Ok("live", Object(<< <<"J", Scalar>> >>))
    /\ content = Content(<<"{", "J", "1", "}">>) => response.status = 500

C9_Witness ==
  /\ pc = "done"
  /\ content = Content(<<"w", "{", "J", "1", "}">>)
  /\ dashboard_json = [ok |-> TRUE, val |-> Object(<< <<"J", Scalar>> >>)]
  /\ response.status = 500

\* ---- C10 ---------------------------------------------------------------
\* C10, as stated: the result of load_openai_key is None or a non-empty
\* text, and a usable fallback file is read whenever the environment yields
\* no usable key.
C10_KeyIsNoneOrNonEmpty ==
  keyLookups = 1 =>
    LET r == load_openai_key(keyEnv, keyFile) IN
      /\ r.none \/ r.val # <<>>
      /\ ( /\ ~keyEnv.set \/ Strip(keyEnv.val) = <<>>
           /\ keyFile.state = "ok"
           /\ Strip(keyFile.text) # <<>> )
         => r = Some(Strip(keyFile.text))

=============================================================================
